---- MODULE Spec2Model ----
(***************************************************************************)
(* Lifecycle model of the two capture sources of pi_server:                *)
(*   - the SDR module   (modules/rtl-sdr.js, here src/unnamed/part_000)    *)
(*   - the camera module (src/modules/pi-camera.js)                        *)
(* Each source keeps its process handle in module-level variables and      *)
(* registers stdout/stderr/error/close handlers on every spawned child.    *)
(* The handlers are never removed, so events of a child that has been      *)
(* sent SIGTERM still run them; the model keeps every spawned child in a   *)
(* table so that such late events are part of the behaviours.              *)
(***************************************************************************)
EXTENDS Integers, Sequences, FiniteSets, TLC

\* Number of startStream calls of the SDR module in one behaviour.
MaxStarts == 3
\* Number of camera children spawned in one behaviour.
MaxCamSpawns == 3
\* Number of distinct stdout chunks a camera child can emit.
MaxChunk == 2
\* Number of client sockets of the server.
NumSockets == 2
MaxSmallLen == 3
MaxExcess == 2
MaxClock == 2
MaxArrivals == 2
MaxSessions == 2
\* Number of checkAvailability calls in one behaviour.
MaxProbes == 2
\* Number of capturePhoto calls in one behaviour.
MaxCaptures == 2

VARIABLES
    rtlProcess,     \* part_000:3  0 is null, else the id of the child
    dataCallback,   \* part_000:4  0 is null, else the id of the call that gave it
    proc,           \* the rtl_sdr children spawned so far, by id
    nextId,         \* id of the next startStream call (and of its child)
    tick,           \* the child whose spawn failure is queued with process.nextTick, or 0
    lastApi,        \* last exported SDR function called: none, start, stop
    lastOp,         \* the step taken last: operation, child, exit code
    lastIn,         \* what the last startStream call was given: config ok, spawn outcome
    out,            \* messages passed to a delivery callback by the last step
    cameraProcess,  \* pi-camera.js:5  0 is null, else the id of the child
    isStreaming,    \* pi-camera.js:6
    currentFrame,   \* pi-camera.js:7  NoFrame is null
    cproc,          \* the camera children spawned so far, by id
    cnextId,        \* id of the next camera child
    ctick,          \* the camera child whose spawn failure is queued, or 0
    camLast,        \* the camera step taken last
    camIn,          \* what spawn did, or would have done, in the last camera startStream
    camApi,         \* the camera function called last: "none", "start" or "stop"
    owner,          \* server.js:262  the socket whose closure each callback is, by call id
    sock,           \* server.js:256,272  each socket: "new", "connected", or how it left
    probe,          \* part_000:156  the rtl_test children of checkAvailability, by call
    settled,        \* part_000:155  the state of the promise of each call
    probeLog,       \* the events of each call's probe, in the order they ran
    cfgOf,          \* part_000:14   the config each stdout handler closes over, by child
    arrived,        \* stdout chunks that arrived, with the callback registered then
    sent,           \* every message passed to a delivery callback, in order
    capture,        \* pi-camera.js:99  the calls of capturePhoto: child, promise, events
    authenticated,  \* server.js:60  req.session.authenticated of each client's session
    httpLast        \* the HTTP request served last and what the server answered

sdrVars == <<rtlProcess, dataCallback, proc, nextId, tick, lastApi, lastOp, lastIn, out>>
camVars == <<cameraProcess, isStreaming, currentFrame, cproc, cnextId, ctick, camLast, camIn, camApi>>
srvVars == <<owner, sock>>
probeVars == <<probe, settled, probeLog>>
dataVars == <<cfgOf, arrived, sent>>
capVars == <<capture>>
httpVars == <<authenticated, httpLast>>
vars == <<rtlProcess, dataCallback, proc, nextId, tick, lastApi, lastOp, lastIn, out,
          cameraProcess, isStreaming, currentFrame, cproc, cnextId, ctick, camLast, camIn, camApi,
          owner, sock, probe, settled, probeLog, cfgOf, arrived, sent,
          capture, authenticated, httpLast>>
\* What the handlers of one module never touch.
notSdr == <<camVars, srvVars, probeVars, dataVars, capVars, httpVars>>
notCam == <<sdrVars, srvVars, probeVars, dataVars, capVars, httpVars>>
notProbe == <<sdrVars, camVars, srvVars, dataVars, capVars, httpVars>>
notData == <<sdrVars, camVars, srvVars, probeVars, capVars, httpVars>>

Pids == 1..MaxStarts
Sockets == 1..NumSockets
Probes == 1..MaxProbes
Captures == 1..MaxCaptures
CamPids == 1..MaxCamSpawns
Chunks == 1..MaxChunk

\* A child as the operating system and Node see it.
\*   unborn  : not spawned yet
\*   running : spawned, stdio open, 'close' not yet emitted
\*   failed  : spawn failed asynchronously (ENOENT ...), 'error' not yet emitted;
\*             Node queues that event with process.nextTick, so it is the next
\*             callback to run, before any other event or request
\*   errored : 'error' emitted, 'close' not yet emitted
\*   closed  : 'close' emitted, no further event
\* signalled: kill('SIGTERM') has been called on it.
Unborn == [status |-> "unborn", signalled |-> FALSE]

\* Outcomes of child_process.spawn: a running child, a child whose failure is
\* reported through the 'error' event, or a synchronous throw.
SpawnOutcomes == {"ok", "enoent", "throw"}

\* Exit codes handed to the 'close' handler: a number for a child that exited
\* by itself, null for one ended by a signal, a negative errno after a failed
\* spawn.
SelfExitCodes == {"0", "1"}
SignalExitCode == "null"
SpawnFailCode == "-2"

CloseCodes(p) ==
    IF p.status = "errored" THEN {SpawnFailCode}
    ELSE IF p.signalled THEN SelfExitCodes \cup {SignalExitCode}
    ELSE SelfExitCodes

\* `Process stopped (exit code: ${code})`
ExitMessage(c) ==
    CASE c = "0" -> "Process stopped (exit code: 0)"
      [] c = "1" -> "Process stopped (exit code: 1)"
      [] c = "null" -> "Process stopped (exit code: null)"
      [] OTHER -> "Process stopped (exit code: -2)"

\* One call of a delivery callback: the callback (by the id of the call that
\* registered it), the child whose event caused it, and the message.
Msg(to, from, type, message) ==
    [to |-> to, from |-> from, type |-> type, message |-> message]

\* if (dataCallback) dataCallback(m)
Deliver(cb, from, type, message) ==
    IF cb # 0 THEN <<Msg(cb, from, type, message)>> ELSE <<>>

Op(op, pid, code) == [op |-> op, pid |-> pid, code |-> code]

\* Children that are running and have not been sent a termination signal.
LiveUnsignalled == {p \in Pids : proc[p].status = "running" /\ ~proc[p].signalled}

NoFrame == [from |-> 0, data |-> 0]
CamUnborn == [status |-> "unborn", signalled |-> FALSE]
CamLiveUnsignalled ==
    {p \in CamPids : cproc[p].status = "running" /\ ~cproc[p].signalled}

\* The config of a child that was never started.
NoConfig == [frequency |-> 0, sampleRate |-> 0, gain |-> 0]

\* The probe of a checkAvailability call that was not made yet.
ProbeUnborn == [status |-> "unborn", signalled |-> FALSE, timer |-> "unset"]

\* No client has connected, no probe was started, no chunk has arrived.
SrvIdle == owner = [p \in Pids |-> 0] /\ sock = [s \in Sockets |-> "new"]
ProbeIdle ==
    /\ probe = [i \in Probes |-> ProbeUnborn]
    /\ settled = [i \in Probes |-> "none"]
    /\ probeLog = [i \in Probes |-> <<>>]
DataIdle == cfgOf = [p \in Pids |-> NoConfig] /\ arrived = <<>> /\ sent = <<>>

\* A capturePhoto call that was not made yet: no child, no promise.
NoResult == [success |-> FALSE, filename |-> "", url |-> ""]
CaptureUnborn ==
    [status |-> "unborn", settled |-> "none", result |-> NoResult, stamp |-> 0, log |-> <<>>]
CaptureIdle == capture = [k \in Captures |-> CaptureUnborn]

\* No session carries the flag, no request was served.
NoRequest == [client |-> 0, method |-> "", route |-> "", password |-> "", answer |-> ""]
HttpIdle == authenticated = [s \in Sockets |-> FALSE] /\ httpLast = NoRequest

Init ==
    /\ rtlProcess = 0
    /\ dataCallback = 0
    /\ proc = [p \in Pids |-> Unborn]
    /\ nextId = 1
    /\ tick = 0
    /\ lastApi = "none"
    /\ lastOp = Op("init", 0, "")
    /\ lastIn = [cfgOk |-> TRUE, outcome |-> "ok"]
    /\ out = <<>>
    /\ cameraProcess = 0
    /\ isStreaming = FALSE
    /\ currentFrame = NoFrame
    /\ cproc = [p \in CamPids |-> CamUnborn]
    /\ cnextId = 1
    /\ ctick = 0
    /\ camLast = Op("init", 0, "")
    /\ camIn = "ok"
    /\ camApi = "none"
    /\ SrvIdle
    /\ ProbeIdle
    /\ DataIdle
    /\ CaptureIdle
    /\ HttpIdle

----------------------------------------------------------------------------
(* SDR module, src/unnamed/part_000 *)

\* The process table after stopStream's kill('SIGTERM') on the active child.
Killed(pr, p) == [pr EXCEPT ![p].signalled = TRUE]

\* stopStream(), lines 141-148
StopStream ==
    /\ tick = 0
    /\ IF rtlProcess # 0
       THEN /\ proc' = Killed(proc, rtlProcess)
            /\ rtlProcess' = 0
            /\ dataCallback' = 0
       ELSE UNCHANGED <<proc, rtlProcess, dataCallback>>
    /\ lastApi' = "stop"
    /\ lastOp' = Op("stopStream", rtlProcess, "")
    /\ out' = <<>>
    /\ UNCHANGED <<nextId, tick, lastIn>>
    /\ UNCHANGED <<camVars, probeVars, capVars, httpVars>>

\* The body of startStream(config, callback), lines 14-89. cfgOk: config is an
\* object with frequency, sampleRate and gain; outcome: what spawn does.
RunStartStream(cfgOk, outcome) ==
    /\ nextId <= MaxStarts
    /\ tick = 0
    /\ LET id == nextId
           \* lines 15-18: stop the child the module holds
           pr1 == IF rtlProcess # 0 THEN Killed(proc, rtlProcess) ELSE proc
       IN  /\ dataCallback' = id                          \* line 20
           /\ IF ~cfgOk
              THEN \* lines 22-28 throw a TypeError, outside the try block
                   /\ rtlProcess' = 0
                   /\ proc' = pr1
                   /\ out' = <<>>
                   /\ tick' = 0
                   /\ lastOp' = Op("startStream", id, "raised")
              ELSE CASE outcome = "throw" ->
                        \* lines 80-88
                        /\ rtlProcess' = 0
                        /\ proc' = pr1
                        /\ out' = Deliver(id, id, "error", "Failed to start RTL-SDR")
                        /\ tick' = 0
                        /\ lastOp' = Op("startStream", id, "caught")
                     [] outcome = "enoent" ->
                        /\ rtlProcess' = id
                        /\ proc' = [pr1 EXCEPT ![id] = [status |-> "failed", signalled |-> FALSE]]
                        /\ out' = <<>>
                        /\ tick' = id
                        /\ lastOp' = Op("startStream", id, "spawned")
                     [] OTHER ->
                        /\ rtlProcess' = id
                        /\ proc' = [pr1 EXCEPT ![id] = [status |-> "running", signalled |-> FALSE]]
                        /\ out' = <<>>
                        /\ tick' = 0
                        /\ lastOp' = Op("startStream", id, "spawned")
           /\ nextId' = id + 1
    /\ lastApi' = "start"
    /\ UNCHANGED <<camVars, probeVars, capVars, httpVars>>

\* A startStream without its try/catch: a throw of spawn leaves the function.
StartStreamNoCatch(cfgOk, outcome) ==
    /\ RunStartStream(cfgOk /\ outcome # "throw", outcome)
    /\ lastIn' = [cfgOk |-> cfgOk, outcome |-> outcome]

\* A startStream that formats the fields with String(x) and so never raises
\* on a missing one.
StartStreamUnchecked(cfgOk, outcome) ==
    /\ RunStartStream(TRUE, outcome)
    /\ lastIn' = [cfgOk |-> cfgOk, outcome |-> outcome]

\* startStream(config, callback), lines 14-89
StartStream(cfgOk, outcome) ==
    /\ RunStartStream(cfgOk, outcome)
    /\ lastIn' = [cfgOk |-> cfgOk, outcome |-> outcome]

\* rtlProcess.stdout.on('data'), lines 38-44
OnStdout(p) ==
    /\ tick = 0
    /\ proc[p].status = "running"
    /\ out' = Deliver(dataCallback, p, "data", "sdrData")
    /\ lastOp' = Op("stdout", p, "")
    /\ UNCHANGED <<rtlProcess, dataCallback, proc, nextId, tick, lastApi>>
    /\ UNCHANGED <<lastIn, notSdr>>

\* rtlProcess.stderr.on('data'), lines 46-57
OnStderr(p) ==
    /\ tick = 0
    /\ proc[p].status = "running"
    /\ out' = Deliver(dataCallback, p, "status", "stderr text")
    /\ lastOp' = Op("stderr", p, "")
    /\ UNCHANGED <<rtlProcess, dataCallback, proc, nextId, tick, lastApi>>
    /\ UNCHANGED <<lastIn, notSdr>>

\* rtlProcess.on('error'), lines 59-67
OnError(p) ==
    /\ tick = p
    /\ proc[p].status = "failed"
    /\ tick' = 0
    /\ proc' = [proc EXCEPT ![p].status = "errored"]
    /\ out' = Deliver(dataCallback, p, "error", "spawn rtl_sdr ENOENT")
    /\ lastOp' = Op("error", p, "")
    /\ UNCHANGED <<rtlProcess, dataCallback, nextId, lastApi>>
    /\ UNCHANGED <<lastIn, notSdr>>

\* What the close handler leaves in rtlProcess when it forgets line 71.
OnCloseKeepsHandle(p, c) ==
    /\ tick = 0
    /\ proc[p].status \in {"running", "errored"}
    /\ c \in CloseCodes(proc[p])
    /\ proc' = [proc EXCEPT ![p].status = "closed"]
    /\ out' = Deliver(dataCallback, p, "status", ExitMessage(c))
    /\ lastOp' = Op("close", p, c)
    /\ UNCHANGED <<rtlProcess, dataCallback, nextId, tick, lastApi>>
    /\ UNCHANGED <<lastIn, notSdr>>

\* A close handler that starts the tool again after a failure exit.
OnCloseRestarts(p, c) ==
    /\ tick = 0
    /\ proc[p].status \in {"running", "errored"}
    /\ c \in CloseCodes(proc[p])
    /\ IF c # "0" /\ nextId <= MaxStarts /\ nextId # p
       THEN /\ proc' = [proc EXCEPT ![p].status = "closed",
                                    ![nextId] = [status |-> "running", signalled |-> FALSE]]
            /\ rtlProcess' = nextId
            /\ nextId' = nextId + 1
       ELSE /\ proc' = [proc EXCEPT ![p].status = "closed"]
            /\ rtlProcess' = 0
            /\ UNCHANGED nextId
    /\ out' = Deliver(dataCallback, p, "status", ExitMessage(c))
    /\ lastOp' = Op("close", p, c)
    /\ UNCHANGED <<dataCallback, tick, lastApi>>
    /\ UNCHANGED <<lastIn, notSdr>>

\* rtlProcess.on('close'), lines 69-78
OnClose(p, c) ==
    /\ tick = 0
    /\ proc[p].status \in {"running", "errored"}
    /\ c \in CloseCodes(proc[p])
    /\ proc' = [proc EXCEPT ![p].status = "closed"]
    /\ rtlProcess' = 0
    /\ out' = Deliver(dataCallback, p, "status", ExitMessage(c))
    /\ lastOp' = Op("close", p, c)
    /\ UNCHANGED <<dataCallback, nextId, tick, lastApi>>
    /\ UNCHANGED <<lastIn, notSdr>>

\* The exported functions called on the module alone: no socket and no
\* chunk log takes part.
CallStop == StopStream /\ UNCHANGED <<srvVars, dataVars>>
CallStart(cfgOk, outcome) ==
    StartStream(cfgOk, outcome) /\ UNCHANGED <<srvVars, dataVars>>

Next ==
    \/ CallStop
    \/ \E cfgOk \in BOOLEAN, outcome \in SpawnOutcomes : CallStart(cfgOk, outcome)
    \/ \E p \in Pids : OnStdout(p)
    \/ \E p \in Pids : OnStderr(p)
    \/ \E p \in Pids : OnError(p)
    \/ \E p \in Pids, c \in SelfExitCodes \cup {SignalExitCode, SpawnFailCode} : OnClose(p, c)

Spec == Init /\ [][Next]_vars

----------------------------------------------------------------------------
(* Camera module, src/modules/pi-camera.js *)

CamOp(op, pid, code) == [op |-> op, pid |-> pid, code |-> code]

\* stopStream(), lines 71-80
CamStopStream ==
    /\ ctick = 0
    /\ IF cameraProcess # 0
       THEN /\ cproc' = [cproc EXCEPT ![cameraProcess].signalled = TRUE]
            /\ cameraProcess' = 0
       ELSE UNCHANGED <<cproc, cameraProcess>>
    /\ isStreaming' = FALSE
    /\ currentFrame' = NoFrame
    /\ camLast' = CamOp("stopStream", cameraProcess, "stopped")
    /\ UNCHANGED <<cnextId, ctick>>
    /\ UNCHANGED camIn
    /\ camApi' = "stop"
    /\ UNCHANGED notCam

\* A startStream that stops the running child and spawns anew instead of
\* returning early when isStreaming is set.
CamStartStreamReplaces(outcome) ==
    /\ cnextId <= MaxCamSpawns
    /\ ctick = 0
    /\ LET pr1 == IF isStreaming /\ cameraProcess # 0
                  THEN [cproc EXCEPT ![cameraProcess].signalled = TRUE]
                  ELSE cproc
           fr1 == IF isStreaming THEN NoFrame ELSE currentFrame
       IN  CASE outcome = "throw" ->
                /\ camLast' = CamOp("startStream", 0, "failed")
                /\ cproc' = pr1
                /\ cameraProcess' = IF isStreaming THEN 0 ELSE cameraProcess
                /\ isStreaming' = FALSE
                /\ currentFrame' = fr1
                /\ UNCHANGED <<cnextId, ctick>>
             [] OTHER ->
                /\ cproc' = [pr1 EXCEPT ![cnextId] =
                                [status |-> IF outcome = "ok" THEN "running" ELSE "failed",
                                 signalled |-> FALSE]]
                /\ cameraProcess' = cnextId
                /\ isStreaming' = TRUE
                /\ currentFrame' = fr1
                /\ cnextId' = cnextId + 1
                /\ ctick' = IF outcome = "ok" THEN 0 ELSE cnextId
                /\ camLast' = CamOp("startStream", cnextId, "started")
    /\ camIn' = outcome
    /\ camApi' = "start"
    /\ UNCHANGED notCam

\* startStream(), lines 18-66. outcome: what spawn does.
CamStartStream(outcome) ==
    /\ ctick = 0
    /\ IF isStreaming
       THEN \* lines 19-22: 'Camera already streaming'
            /\ camLast' = CamOp("startStream", 0, "already")
            /\ UNCHANGED <<cameraProcess, isStreaming, currentFrame, cproc, cnextId, ctick>>
       ELSE /\ cnextId <= MaxCamSpawns
            /\ CASE outcome = "throw" ->
                    \* lines 62-65: { success: false }
                    /\ camLast' = CamOp("startStream", 0, "failed")
                    /\ UNCHANGED <<cameraProcess, isStreaming, currentFrame, cproc, cnextId, ctick>>
                 [] outcome = "enoent" ->
                    /\ cproc' = [cproc EXCEPT ![cnextId] = [status |-> "failed", signalled |-> FALSE]]
                    /\ ctick' = cnextId
                    /\ cameraProcess' = cnextId
                    /\ isStreaming' = TRUE
                    /\ cnextId' = cnextId + 1
                    /\ camLast' = CamOp("startStream", cnextId, "started")
                    /\ UNCHANGED currentFrame
                 [] OTHER ->
                    /\ cproc' = [cproc EXCEPT ![cnextId] = [status |-> "running", signalled |-> FALSE]]
                    /\ ctick' = 0
                    /\ cameraProcess' = cnextId
                    /\ isStreaming' = TRUE
                    /\ cnextId' = cnextId + 1
                    /\ camLast' = CamOp("startStream", cnextId, "started")
                    /\ UNCHANGED currentFrame
    /\ camIn' = outcome
    /\ camApi' = "start"
    /\ UNCHANGED notCam

\* cameraProcess.stdout.on('data'), lines 37-39
CamOnStdout(p, d) ==
    /\ ctick = 0
    /\ cproc[p].status = "running"
    /\ currentFrame' = [from |-> p, data |-> d]
    /\ camLast' = CamOp("stdout", p, "")
    /\ UNCHANGED <<cameraProcess, isStreaming, cproc, cnextId, ctick>>
    /\ UNCHANGED camIn
    /\ UNCHANGED camApi
    /\ UNCHANGED notCam

\* cameraProcess.stderr.on('data'), lines 41-43: logs only
CamOnStderr(p) ==
    /\ ctick = 0
    /\ cproc[p].status = "running"
    /\ camLast' = CamOp("stderr", p, "")
    /\ UNCHANGED <<cameraProcess, isStreaming, currentFrame, cproc, cnextId, ctick>>
    /\ UNCHANGED camIn
    /\ UNCHANGED camApi
    /\ UNCHANGED notCam

\* An error handler like the SDR module's, which leaves the handle in place.
CamOnErrorKeepsHandle(p) ==
    /\ ctick = p
    /\ cproc[p].status = "failed"
    /\ ctick' = 0
    /\ cproc' = [cproc EXCEPT ![p].status = "errored"]
    /\ isStreaming' = FALSE
    /\ camLast' = CamOp("error", p, "")
    /\ UNCHANGED <<cameraProcess, currentFrame, cnextId>>
    /\ UNCHANGED camIn
    /\ UNCHANGED camApi
    /\ UNCHANGED notCam

\* cameraProcess.on('error'), lines 45-49
CamOnError(p) ==
    /\ ctick = p
    /\ cproc[p].status = "failed"
    /\ ctick' = 0
    /\ cproc' = [cproc EXCEPT ![p].status = "errored"]
    /\ isStreaming' = FALSE
    /\ cameraProcess' = 0
    /\ camLast' = CamOp("error", p, "")
    /\ UNCHANGED <<currentFrame, cnextId>>
    /\ UNCHANGED camIn
    /\ UNCHANGED camApi
    /\ UNCHANGED notCam

\* cameraProcess.on('close'), lines 51-56
CamOnClose(p, c) ==
    /\ ctick = 0
    /\ cproc[p].status \in {"running", "errored"}
    /\ c \in CloseCodes(cproc[p])
    /\ cproc' = [cproc EXCEPT ![p].status = "closed"]
    /\ isStreaming' = FALSE
    /\ cameraProcess' = 0
    /\ currentFrame' = NoFrame
    /\ camLast' = CamOp("close", p, c)
    /\ UNCHANGED <<cnextId, ctick>>
    /\ UNCHANGED camIn
    /\ UNCHANGED camApi
    /\ UNCHANGED notCam

CamNext ==
    \/ CamStopStream
    \/ \E outcome \in SpawnOutcomes : CamStartStream(outcome)
    \/ \E p \in CamPids, d \in Chunks : CamOnStdout(p, d)
    \/ \E p \in CamPids : CamOnStderr(p)
    \/ \E p \in CamPids : CamOnError(p)
    \/ \E p \in CamPids, c \in SelfExitCodes \cup {SignalExitCode, SpawnFailCode} : CamOnClose(p, c)

CamSpec == Init /\ [][CamNext]_vars

----------------------------------------------------------------------------
(* Properties of the SDR module, checked under Spec *)

\* C1: at most one rtl_sdr child is running without having been sent a
\* termination signal, in every reachable state.
C1_AtMostOneLiveSdr == Cardinality(LiveUnsignalled) <= 1

\* C2: from the return of a stopStream call until the next startStream call,
\* no step passes a message to a delivery callback.
C2_NoDeliveryAfterStop == lastApi = "stop" => out = <<>>

\* C3: no event of a child that has been stopped (sent SIGTERM by stopStream,
\* directly or inside a superseding startStream) results in a message passed
\* to the callback of another session.
C3_StoppedChildIsSilent ==
    \A i \in DOMAIN out :
        proc[out[i].from].signalled => out[i].to = out[i].from

\* C4: an error or close event of a child that has been stopped leaves
\* rtlProcess and dataCallback unchanged.
C4_StaleEventKeepsHandle ==
    [][\A p \in Pids :
          (proc[p].signalled /\ proc'[p].status # proc[p].status)
              => UNCHANGED <<rtlProcess, dataCallback>>]_vars

\* C5: when startStream is called and the previous call of the module was a
\* startStream too, and the call spawns its child, then afterwards the only
\* child running without a termination signal is the new one, rtlProcess is
\* the new child and dataCallback the new callback.
C5_SecondStartReplacesFirst ==
    [][(lastApi = "start" /\ nextId' = nextId + 1
            /\ proc'[nextId].status = "running")
          => (/\ LiveUnsignalled' = {nextId}
              /\ rtlProcess' = nextId
              /\ dataCallback' = nextId)]_vars

\* C9: in the state a stopStream call returns in, dataCallback is null.
C9_StopClearsCallback == lastOp.op = "stopStream" => dataCallback = 0

\* C10: when the child held in rtlProcess closes with exit code c while a
\* delivery callback is registered, the step delivers exactly one message,
\* the status "Process stopped (exit code: c)", to that callback, and
\* rtlProcess is null afterwards.
C10_ActiveCloseReported ==
    [][\A p \in Pids :
          (rtlProcess = p /\ dataCallback # 0
              /\ proc[p].status # "closed" /\ proc'[p].status = "closed")
          => (/\ out' = <<Msg(dataCallback, p, "status", ExitMessage(lastOp'.code))>>
              /\ lastOp'.code \in CloseCodes(proc[p])
              /\ rtlProcess' = 0)]_vars

\* C10 witness: the only session's child exited by itself with code 1 and
\* its callback received the status line.
C10_Witness ==
    /\ nextId = 2
    /\ lastOp = Op("close", 1, "1")
    /\ ~proc[1].signalled
    /\ out = <<Msg(1, 1, "status", "Process stopped (exit code: 1)")>>
    /\ rtlProcess = 0

----------------------------------------------------------------------------
(* Properties of the camera module, checked under CamSpec *)

C7_AtMostOneLiveCam == Cardinality(CamLiveUnsignalled) <= 1

\* C8: a stopStream call made while the module holds no child (rtlProcess,
\* resp. cameraProcess, is null) sends no signal and leaves the module state
\* unchanged, for both sources.
C8_StopWithoutChildIsNoop ==
    [][/\ (rtlProcess = 0 /\ lastOp'.op = "stopStream")
            => UNCHANGED <<rtlProcess, dataCallback, proc, nextId>>
       /\ (cameraProcess = 0 /\ camLast'.op = "stopStream")
            => UNCHANGED <<cameraProcess, isStreaming, currentFrame, cproc, cnextId>>]_vars

-----------------------------------------------------------------------------
\* Either module on its own. The two modules share no variable and no child,
\* so a behaviour drives one of them from the initial state and leaves the
\* other untouched.
SdrUntouched == lastOp.op = "init"
CamUntouched == camLast.op = "init"

SdrStep == CamUntouched /\ Next
CamStep == SdrUntouched /\ CamNext

SourcesNext == SdrStep \/ CamStep

SourcesSpec == Init /\ [][SourcesNext]_vars

-----------------------------------------------------------------------------
\* C11: once the error handler of the child the module holds has run, an
\* error message has gone to the callback and the module no longer holds the
\* failed child (SDR: rtlProcess, camera: cameraProcess).
C11_ErrorClearsHandle ==
    /\ lastOp.op = "error" =>
         /\ out # <<>>
         /\ out[1].type = "error"
         /\ rtlProcess # lastOp.pid
    /\ camLast.op = "error" => cameraProcess # camLast.pid

\* C12: a child is only ever spawned by a step that is a startStream call;
\* no error, close, stdout, stderr or stop step brings a child into being.
C12_NoAutomaticRestart ==
    [][/\ \A p \in Pids :
            (proc[p].status = "unborn" /\ proc'[p].status # "unborn")
                => (lastOp'.op = "startStream" /\ lastOp'.pid = p)
       /\ \A p \in CamPids :
            (cproc[p].status = "unborn" /\ cproc'[p].status # "unborn")
                => camLast' = CamOp("startStream", p, "started")]_vars

\* the SDR tool has exited with a failure code and nothing was started after it
C12_Witness ==
    /\ lastOp = Op("close", 1, "1")
    /\ nextId = 2
    /\ \A p \in Pids : proc[p].status \in {"closed", "unborn"}

C18_MalformedConfigRaisesBeforeSpawn ==
    (lastOp.op = "startStream" /\ ~lastIn.cfgOk) =>
        /\ lastOp.code = "raised"
        /\ proc[lastOp.pid].status = "unborn"
        /\ out = <<>>

C18_Witness ==
    /\ lastOp = Op("startStream", 1, "raised")
    /\ ~lastIn.cfgOk
    /\ \A p \in Pids : proc[p].status = "unborn"

-----------------------------------------------------------------------------
\* server.js:247-276, the socket.io handlers over the SDR module. A socket
\* object connects once and never again after its disconnect. The configs sent
\* here are well formed: a malformed one raises out of the 'start-sdr'
\* listener (see C18); Spec covers that case.

\* The session of call p is the active one: its callback is the registered
\* one and its child runs without having been sent a signal.
ActiveSession(p) ==
    /\ dataCallback = p
    /\ proc[p].status = "running"
    /\ ~proc[p].signalled

\* io.on('connection'), line 256
Connection(s) ==
    /\ tick = 0
    /\ sock[s] = "new"
    /\ sock' = [sock EXCEPT ![s] = "connected"]
    /\ out' = <<>>
    /\ lastOp' = Op("connection", s, "")
    /\ UNCHANGED <<rtlProcess, dataCallback, proc, nextId, tick, lastApi, lastIn>>
    /\ UNCHANGED <<owner, camVars, probeVars, dataVars, capVars, httpVars>>

\* socket.on('start-sdr'), lines 260-265: the callback is a closure over socket
StartSdr(s, outcome) ==
    /\ sock[s] = "connected"
    /\ StartStream(TRUE, outcome)
    /\ owner' = [owner EXCEPT ![nextId] = s]
    /\ UNCHANGED <<sock, dataVars>>

\* socket.on('stop-sdr'), lines 267-270
StopSdr(s) ==
    /\ sock[s] = "connected"
    /\ StopStream
    /\ UNCHANGED <<srvVars, dataVars>>

\* socket.on('disconnect'), lines 272-275; the socket's new status keeps
\* whether a session it had started was the active one when it left.
Disconnect(s) ==
    /\ sock[s] = "connected"
    /\ StopStream
    /\ sock' = [sock EXCEPT ![s] =
                  IF \E p \in Pids : owner[p] = s /\ ActiveSession(p)
                  THEN "leftActive" ELSE "left"]
    /\ UNCHANGED <<owner, dataVars>>

ServerNext ==
    \/ \E s \in Sockets : Connection(s)
    \/ \E s \in Sockets, outcome \in SpawnOutcomes : StartSdr(s, outcome)
    \/ \E s \in Sockets : StopSdr(s)
    \/ \E s \in Sockets : Disconnect(s)
    \/ \E p \in Pids : OnStdout(p)
    \/ \E p \in Pids : OnStderr(p)
    \/ \E p \in Pids : OnError(p)
    \/ \E p \in Pids, c \in SelfExitCodes \cup {SignalExitCode, SpawnFailCode} : OnClose(p, c)

ServerSpec == Init /\ [][ServerNext]_vars

\* the sockets on which the last step emitted
EmittedOn == {owner[out[i].to] : i \in DOMAIN out}

\* C13: a disconnect of the socket whose session is the active one signals
\* that session's child and clears rtlProcess and dataCallback, and no step
\* ever emits on a socket that left that way.
C13_DisconnectStopsOwnSession ==
    [][/\ \A s \in Sockets, p \in Pids :
            (sock[s] = "connected" /\ sock'[s] # "connected"
                /\ owner[p] = s /\ ActiveSession(p))
            => /\ proc'[p].signalled
               /\ rtlProcess' = 0
               /\ dataCallback' = 0
       /\ \A s \in EmittedOn' : sock'[s] # "leftActive"]_vars

-----------------------------------------------------------------------------
\* checkAvailability(), part_000:154-172. Each call k has its own probe child
\* testProcess, its own timer and its own promise.

\* resolve(v): only the first settlement of a promise counts
Resolve(k, v) == [settled EXCEPT ![k] = IF settled[k] = "pending" THEN v ELSE settled[k]]

Logged(k, e) == [probeLog EXCEPT ![k] = Append(probeLog[k], e)]

\* what the close event of a probe can carry
ProbeCloseCodes(pb) ==
    IF pb.status = "errored" THEN {SpawnFailCode}
    ELSE SelfExitCodes \cup (IF pb.signalled THEN {SignalExitCode} ELSE {})

\* lines 155-171: the executor spawns, registers the two handlers and arms the
\* timer. A spawn that throws leaves the executor before any of that, and the
\* promise is rejected.
CheckAvailability(k, outcome) ==
    /\ settled[k] = "none"
    /\ IF outcome = "throw"
       THEN /\ settled' = [settled EXCEPT ![k] = "rejected"]
            /\ probe' = [probe EXCEPT ![k].status = "none"]
       ELSE /\ settled' = [settled EXCEPT ![k] = "pending"]
            /\ probe' = [probe EXCEPT ![k] =
                           [status |-> IF outcome = "enoent" THEN "failed" ELSE "running",
                            signalled |-> FALSE, timer |-> "armed"]]
    /\ UNCHANGED <<probeLog, notProbe>>

\* testProcess.on('error'), lines 158-160
ProbeOnError(k) ==
    /\ probe[k].status = "failed"
    /\ probe' = [probe EXCEPT ![k].status = "errored"]
    /\ settled' = Resolve(k, "false")
    /\ probeLog' = Logged(k, "error")
    /\ UNCHANGED notProbe

\* testProcess.on('close'), lines 162-164
ProbeOnClose(k, c) ==
    /\ probe[k].status \in {"running", "errored"}
    /\ c \in ProbeCloseCodes(probe[k])
    /\ probe' = [probe EXCEPT ![k].status = "closed"]
    /\ settled' = Resolve(k, IF c = "0" THEN "true" ELSE "false")
    /\ probeLog' = Logged(k, "close " \o c)
    /\ UNCHANGED notProbe

\* A timer callback that gives up on the probe without killing it.
ProbeTimeoutGivesUp(k) ==
    /\ probe[k].timer = "armed"
    /\ probe[k].status # "failed"
    /\ probe' = [probe EXCEPT ![k].timer = "fired"]
    /\ settled' = Resolve(k, "false")
    /\ probeLog' = Logged(k, "timeout")
    /\ UNCHANGED notProbe

\* the setTimeout callback, lines 167-170. The timer is never cleared, so it
\* also fires after the probe has closed; kill() then signals nothing. The
\* error event of a failed spawn is queued for the next tick and so precedes
\* the timer.
ProbeTimeout(k) ==
    /\ probe[k].timer = "armed"
    /\ probe[k].status # "failed"
    /\ probe' = [probe EXCEPT ![k].timer = "fired",
                              ![k].signalled = (probe[k].status = "running")]
    /\ settled' = Resolve(k, "false")
    /\ probeLog' = Logged(k, "timeout")
    /\ UNCHANGED notProbe

ProbeNext ==
    \/ \E k \in Probes, outcome \in SpawnOutcomes : CheckAvailability(k, outcome)
    \/ \E k \in Probes : ProbeOnError(k)
    \/ \E k \in Probes, c \in SelfExitCodes \cup {SignalExitCode, SpawnFailCode} : ProbeOnClose(k, c)
    \/ \E k \in Probes : ProbeTimeout(k)

ProbeSpec == Init /\ [][ProbeNext]_vars

\* The event loop runs every queued error event and every armed timer, and a
\* probe that was sent the signal, or whose spawn failed, closes. Nothing
\* makes a running, unsignalled probe exit.
ProbeFairness ==
    \A k \in Probes :
        /\ WF_vars(ProbeOnError(k))
        /\ WF_vars(ProbeTimeout(k))
        /\ WF_vars((probe[k].signalled \/ probe[k].status = "errored")
                     /\ \E c \in {SignalExitCode, SpawnFailCode} : ProbeOnClose(k, c))

FairProbeSpec == ProbeSpec /\ ProbeFairness

\* C14: a call that was made settles as a resolution, true exactly when the
\* first event of its probe is a close with exit code 0, false when the first
\* event is anything else, and it is pending until the first event.
C14_ResolvesByFirstEvent ==
    \A k \in Probes :
        settled[k] # "none" =>
            settled[k] = IF probeLog[k] = <<>> THEN "pending"
                         ELSE IF Head(probeLog[k]) = "close 0" THEN "true"
                         ELSE "false"

\* C15: when the timer is the first event of a probe, the call resolves false
\* and the probe has been sent the kill signal; and every probe that runs is
\* eventually closed.
C15_NoOrphanedProbe ==
    /\ [](\A k \in Probes :
            (probeLog[k] # <<>> /\ Head(probeLog[k]) = "timeout")
                => (settled[k] = "false" /\ probe[k].signalled))
    /\ \A k \in Probes : (probe[k].status = "running") ~> (probe[k].status = "closed")

\* a probe that did not exit by itself: timed out, killed, then closed by the signal
C15_Witness ==
    \E k \in Probes :
        /\ probeLog[k] = <<"timeout", "close null">>
        /\ probe[k] = [status |-> "closed", signalled |-> TRUE, timer |-> "fired"]
        /\ settled[k] = "false"

-----------------------------------------------------------------------------
\* processSDRData(data, config), part_000:97-136. A Buffer is a sequence of
\* bytes, data[i] of the code being data[i + 1] here. A JavaScript number is
\* held as [kind, v]: kind "num" with an integer v, or "NaN". i and q are kept
\* exactly, in units of 1/255, since (b - 127.5) / 127.5 = (2b - 255) / 255;
\* magnitudes are kept in units of 1/10000, rounded down.

maxSamples == 1024
SubsetSize == 256
Undefined == -1

Num(v) == [kind |-> "num", v |-> v]
NaN == [kind |-> "NaN", v |-> 0]

Min(a, b) == IF a < b THEN a ELSE b

\* data[i]: a read past the end of a Buffer gives undefined
At(data, i) == IF i < Len(data) THEN data[i + 1] ELSE Undefined

\* (data[i] - 127.5) / 127.5, lines 108-109; undefined - 127.5 is NaN
Centre(b) == IF b = Undefined THEN NaN ELSE Num(2 * b - 255)

RECURSIVE ISqrtIn(_, _, _)
ISqrtIn(n, lo, hi) ==
    IF lo = hi THEN lo
    ELSE LET mid == (lo + hi + 1) \div 2
         IN  IF mid * mid <= n THEN ISqrtIn(n, mid, hi) ELSE ISqrtIn(n, lo, mid - 1)

\* the integer square root of n, for n up to 2 * 255 * 255 * 10000
ISqrt(n) == ISqrtIn(n, 0, 36064)

\* Math.sqrt(i * i + q * q), line 114
Magnitude(i, q) ==
    IF i.kind = "NaN" \/ q.kind = "NaN" THEN NaN
    ELSE Num((ISqrt((i.v * i.v + q.v * q.v) * 10000) * 100) \div 255)

\* the object pushed by one turn of the loop, lines 108-115
Sample(data, i) ==
    LET i_sample == Centre(At(data, i))
        q_sample == Centre(At(data, i + 1))
    IN  [i |-> i_sample, q |-> q_sample, magnitude |-> Magnitude(i_sample, q_sample)]

\* lines 103-116: i runs over 0, 2, 4, ... below numSamples * 2, where
\* numSamples = Math.min(data.length / 2, maxSamples) need not be whole
DecodeUpTo(data, numSamples2) ==
    LET turns == (numSamples2 + 1) \div 2
    IN  SubSeq([k \in 1..turns |-> Sample(data, 2 * (k - 1))], 1, turns)

\* a decode whose loop runs over the whole chunk
DecodeAll(data) == DecodeUpTo(data, Len(data))

Decode(data) == DecodeUpTo(data, Min(Len(data), 2 * maxSamples))

RECURSIVE SumMagnitudes(_, _, _)
SumMagnitudes(samples, lo, hi) ==
    IF lo > hi THEN 0
    ELSE IF lo = hi THEN samples[lo].magnitude.v
    ELSE LET mid == (lo + hi) \div 2
         IN  SumMagnitudes(samples, lo, mid) + SumMagnitudes(samples, mid + 1, hi)

RECURSIVE MaxMagnitudes(_, _, _)
MaxMagnitudes(samples, lo, hi) ==
    IF lo = hi THEN samples[lo].magnitude.v
    ELSE LET mid == (lo + hi) \div 2
             a == MaxMagnitudes(samples, lo, mid)
             b == MaxMagnitudes(samples, mid + 1, hi)
         IN  IF a < b THEN b ELSE a

AnyNaN(samples) == \E k \in DOMAIN samples : samples[k].magnitude.kind = "NaN"

Digit(d) == CASE d = 0 -> "0" [] d = 1 -> "1" [] d = 2 -> "2" [] d = 3 -> "3"
              [] d = 4 -> "4" [] d = 5 -> "5" [] d = 6 -> "6" [] d = 7 -> "7"
              [] d = 8 -> "8" [] d = 9 -> "9"

RECURSIVE Digits(_)
Digits(n) == IF n < 10 THEN Digit(n) ELSE Digits(n \div 10) \o Digit(n % 10)

\* x.toFixed(4) for x >= 0 given in units of 1/10000
ToFixed4(v) ==
    Digits(v \div 10000) \o "." \o Digit((v \div 1000) % 10) \o Digit((v \div 100) % 10)
        \o Digit((v \div 10) % 10) \o Digit(v % 10)

\* lines 119-120 and 131: the sum over no sample is 0 and 0 / 0 is NaN
AvgMagnitude(samples) ==
    IF Len(samples) = 0 \/ AnyNaN(samples) THEN "NaN"
    ELSE ToFixed4(SumMagnitudes(samples, 1, Len(samples)) \div Len(samples))

\* lines 121 and 132: Math.max() of no argument is -Infinity
MaxMagnitude(samples) ==
    IF Len(samples) = 0 THEN "-Infinity"
    ELSE IF AnyNaN(samples) THEN "NaN"
    ELSE ToFixed4(MaxMagnitudes(samples, 1, Len(samples)))

\* a returned object whose numSamples counts the samples sent, not all decoded
BuildMessageCountsSubset(samples, data, config, now) ==
    [type |-> "data",
     timestamp |-> now,
     frequency |-> config.frequency,
     sampleRate |-> config.sampleRate,
     numSamples |-> Min(SubsetSize, Len(samples)),
     samples |-> SubSeq(samples, 1, Min(SubsetSize, Len(samples))),
     stats |-> [avgMagnitude |-> AvgMagnitude(samples),
                maxMagnitude |-> MaxMagnitude(samples),
                bytesReceived |-> Len(data)]]

\* lines 118-135: the statistics and the returned object, for samples decoded
BuildMessage(samples, data, config, now) ==
    [type |-> "data",
     timestamp |-> now,
     frequency |-> config.frequency,
     sampleRate |-> config.sampleRate,
     numSamples |-> Len(samples),
     samples |-> SubSeq(samples, 1, Min(SubsetSize, Len(samples))),
     stats |-> [avgMagnitude |-> AvgMagnitude(samples),
                maxMagnitude |-> MaxMagnitude(samples),
                bytesReceived |-> Len(data)]]

\* a processSDRData without the cap of maxSamples
ProcessSDRDataUncapped(data, config, now) == BuildMessage(DecodeAll(data), data, config, now)

\* processSDRData(data, config), read at clock value now (Date.now(), line 125)
ProcessSDRData(data, config, now) == BuildMessage(Decode(data), data, config, now)

-----------------------------------------------------------------------------
\* processSDRData applied to one chunk after another. arrived keeps the call
\* being made and the one before it, sent the two objects returned.

\* n bytes seed, seed + step, seed + 2 step, ... (mod 256)
Ramp(n, seed, step) == [k \in 1..n |-> (seed + (k - 1) * step) % 256]

\* Short chunks of every length from 0, and chunks that fill the decoding
\* window of 2 * maxSamples bytes and exceed it by 0..MaxExcess bytes of 255.
DataChunks ==
    {Ramp(n, seed, 7) : n \in 0..MaxSmallLen, seed \in {127, 250}}
      \cup {Ramp(2 * maxSamples, seed, 7) \o [k \in 1..e |-> 255] :
                e \in 0..MaxExcess, seed \in {127, 250}}

Configs ==
    {[frequency |-> 100000000, sampleRate |-> 2048000, gain |-> 0],
     [frequency |-> 433920000, sampleRate |-> 1024000, gain |-> 20]}

Clocks == 1..MaxClock

\* processSDRData over the inputs drawn, evaluated once
Processed ==
    [data \in DataChunks, config \in Configs, now \in Clocks |->
        ProcessSDRData(data, config, now)]

Last(seq) == seq[Len(seq)]
LastTwo(seq) == IF seq = <<>> THEN <<>> ELSE <<Last(seq)>>

\* one call of processSDRData(data, config) while Date.now() reads now
Transform(data, config, now) ==
    /\ arrived # <<>> => Last(arrived).now <= now
    /\ arrived' = Append(LastTwo(arrived),
                         [pid |-> 0, cb |-> 0, data |-> data, config |-> config, now |-> now])
    /\ sent' = Append(LastTwo(sent),
                      [to |-> 0, from |-> 0, msg |-> Processed[data, config, now]])
    /\ UNCHANGED <<cfgOf, notData>>

DataNext == \E data \in DataChunks, config \in Configs, now \in Clocks : Transform(data, config, now)

DataSpec == Init /\ [][DataNext]_vars

\* C19: a chunk of 0 or 1 bytes gives numSamples = 0 and statistics that are
\* numbers: neither NaN nor the -Infinity of a maximum over nothing.
C19_DegenerateChunkHasNoNaN ==
    \A k \in DOMAIN arrived :
        Len(arrived[k].data) <= 1 =>
            /\ sent[k].msg.numSamples = 0
            /\ sent[k].msg.stats.avgMagnitude \notin {"NaN", "-Infinity"}
            /\ sent[k].msg.stats.maxMagnitude \notin {"NaN", "-Infinity"}

\* the first 2 * maxSamples bytes of a chunk
Window(data) == SubSeq(data, 1, 2 * maxSamples)

\* the object returned for the chunk's window alone, with the chunk's length
OfWindow(e, now) ==
    [Processed[Window(e.data), e.config, now]
        EXCEPT !.stats.bytesReceived = Len(e.data)]

\* C20 as stated: a chunk longer than 2 * maxSamples bytes gives exactly
\* maxSamples samples, those of its first 2 * maxSamples bytes, and the object
\* returned is determined by the chunk and the config alone, whatever the
\* clock reads and whatever chunk came before.
C20_ResultOfChunkAndConfigAlone ==
    \A k \in DOMAIN arrived :
        Len(arrived[k].data) > 2 * maxSamples =>
            /\ sent[k].msg.numSamples = maxSamples
            /\ \A now \in Clocks : sent[k].msg = OfWindow(arrived[k], now)

\* C20: a chunk longer than 2 * maxSamples bytes gives exactly maxSamples
\* samples, and the object returned is the one its first 2 * maxSamples bytes
\* alone would give at the same clock reading, but for bytesReceived:
\* the excess bytes and the chunk before it leave no trace.
C20_ExcessIgnoredNothingCarried ==
    \A k \in DOMAIN arrived :
        Len(arrived[k].data) > 2 * maxSamples =>
            /\ sent[k].msg.numSamples = maxSamples
            /\ sent[k].msg = OfWindow(arrived[k], arrived[k].now)

\* a chunk of more than 2 * maxSamples bytes was processed right after another
C20_Witness ==
    /\ Len(arrived) = 2
    /\ Len(arrived[1].data) > 2 * maxSamples
    /\ Len(arrived[2].data) > 2 * maxSamples + 1
    /\ arrived[1].data # arrived[2].data
    /\ sent[2].msg.numSamples = maxSamples
    /\ sent[2].msg.stats.bytesReceived = Len(arrived[2].data)

-----------------------------------------------------------------------------
\* The SDR module with the content of the chunks: arrived is the log of the
\* stdout chunks in arrival order, sent the log of the objects handed to a
\* callback by the data handler, in the order of the calls.

StreamChunks == {<<127, 127, 255, 0>>, <<0, 255>>}

\* startStream(config, callback) with a well-formed config and a spawn that
\* succeeds; the handlers of this call close over config (line 14)
StartSession(config) ==
    /\ nextId <= MaxSessions
    /\ StartStream(TRUE, "ok")
    /\ cfgOf' = [cfgOf EXCEPT ![nextId] = config]
    /\ UNCHANGED <<srvVars, arrived, sent>>

\* a data handler that puts the newest object first
OnDataNewestFirst(p, data, now) ==
    /\ tick = 0
    /\ proc[p].status = "running"
    /\ Len(arrived) < MaxArrivals
    /\ arrived # <<>> => Last(arrived).now <= now
    /\ arrived' = Append(arrived, [pid |-> p, cb |-> dataCallback, data |-> data,
                                   config |-> cfgOf[p], now |-> now])
    /\ sent' = IF dataCallback # 0
               THEN <<[to |-> dataCallback, from |-> p,
                       msg |-> ProcessSDRData(data, cfgOf[p], now)]>> \o sent
               ELSE sent
    /\ out' = Deliver(dataCallback, p, "data", "sdrData")
    /\ lastOp' = Op("stdout", p, "")
    /\ UNCHANGED <<rtlProcess, dataCallback, proc, nextId, tick, lastApi, lastIn>>
    /\ UNCHANGED <<cfgOf, camVars, srvVars, probeVars, capVars, httpVars>>

\* rtlProcess.stdout.on('data'), lines 38-44, for the chunk data of child p
OnData(p, data, now) ==
    /\ tick = 0
    /\ proc[p].status = "running"
    /\ Len(arrived) < MaxArrivals
    /\ arrived # <<>> => Last(arrived).now <= now
    /\ arrived' = Append(arrived, [pid |-> p, cb |-> dataCallback, data |-> data,
                                   config |-> cfgOf[p], now |-> now])
    /\ sent' = IF dataCallback # 0
               THEN Append(sent, [to |-> dataCallback, from |-> p,
                                  msg |-> ProcessSDRData(data, cfgOf[p], now)])
               ELSE sent
    /\ out' = Deliver(dataCallback, p, "data", "sdrData")
    /\ lastOp' = Op("stdout", p, "")
    /\ UNCHANGED <<rtlProcess, dataCallback, proc, nextId, tick, lastApi, lastIn>>
    /\ UNCHANGED <<cfgOf, camVars, srvVars, probeVars, capVars, httpVars>>

\* the close event of child p: by the signal if it was sent one, else by a
\* clean exit
CloseOf(p) == OnClose(p, IF proc[p].signalled THEN SignalExitCode ELSE "0")

StreamNext ==
    \/ \E config \in Configs : StartSession(config)
    \/ CallStop
    \/ \E p \in Pids, data \in StreamChunks, now \in Clocks : OnData(p, data, now)
    \/ \E p \in Pids : CloseOf(p)

StreamSpec == Init /\ [][StreamNext]_vars

\* the chunks of child p that arrived while the callback of its session was
\* the registered one, and the objects handed to that callback for child p
ArrivedActive(p) == SelectSeq(arrived, LAMBDA e : e.pid = p /\ e.cb = p)
SentOwn(p) == SelectSeq(sent, LAMBDA m : m.from = p /\ m.to = p)

\* C16: for every session, the objects its callback got for its own child
\* are, one for one and in the same order, the results of processSDRData on
\* the chunks that arrived from that child while the session was active.
C16_OneMessagePerChunkInOrder ==
    \A p \in Pids :
        /\ Len(SentOwn(p)) = Len(ArrivedActive(p))
        /\ \A k \in DOMAIN ArrivedActive(p) :
              SentOwn(p)[k].msg =
                  ProcessSDRData(ArrivedActive(p)[k].data, cfgOf[p], ArrivedActive(p)[k].now)

\* two different chunks of the active session have arrived
C16_Witness ==
    \E p \in Pids :
        /\ Len(ArrivedActive(p)) = 2
        /\ ArrivedActive(p)[1].data # ArrivedActive(p)[2].data
        /\ Len(SentOwn(p)) = 2
        /\ SentOwn(p)[1].msg.stats.bytesReceived = Len(ArrivedActive(p)[1].data)

-----------------------------------------------------------------------------
\* The path of a chunk to its message: processSDRData called directly, or
\* sessions started one after another while chunks arrive from any child
\* spawned so far (a replaced child keeps writing until it has exited).

DataStep == lastOp.op = "init" /\ DataNext

\* no direct call was made
NoTransform == arrived # <<>> => arrived[1].pid # 0

StreamStart == NoTransform /\ \E config \in Configs : StartSession(config)

StreamData ==
    /\ NoTransform
    /\ \E p \in Pids, data \in StreamChunks, now \in Clocks : OnData(p, data, now)

ChunkNext == DataStep \/ StreamStart \/ StreamData

ChunkSpec == Init /\ [][ChunkNext]_vars

\* the decoded samples of every chunk drawn, evaluated once
Decoded == [data \in DataChunks \cup StreamChunks |-> Decode(data)]

\* the chunks for which an object was built, in arrival order
Produced == SelectSeq(arrived, LAMBDA e : e.pid = 0 \/ e.cb # 0)

\* the config of the call that the chunk e belongs to: the argument of a
\* direct call, or the config given to the startStream that spawned its child
ConfigFor(e) == IF e.pid = 0 THEN e.config ELSE cfgOf[e.pid]

\* C21: every data message carries the first min(numSamples, SubsetSize) of
\* the decoded samples, numSamples is the count of all decoded samples,
\* bytesReceived the length of the chunk, and frequency and sampleRate those
\* of the config of the call that spawned the child.
C21_MessageFields ==
    /\ Len(sent) = Len(Produced)
    /\ \A k \in DOMAIN sent :
          LET e == Produced[k]
              m == sent[k].msg
              all == Decoded[e.data]
          IN  /\ m.numSamples = Len(all)
              /\ m.samples = SubSeq(all, 1, Min(m.numSamples, SubsetSize))
              /\ m.stats.bytesReceived = Len(e.data)
              /\ m.frequency = ConfigFor(e).frequency
              /\ m.sampleRate = ConfigFor(e).sampleRate

\* a chunk with more samples than are sent was processed
C21_Witness ==
    \E k \in DOMAIN sent :
        /\ sent[k].msg.numSamples = maxSamples
        /\ Len(sent[k].msg.samples) = SubsetSize
        /\ sent[k].msg.stats.bytesReceived > 2 * maxSamples

-----------------------------------------------------------------------------
\* getCurrentFrame(), pi-camera.js:85-87
GetCurrentFrame == currentFrame

\* GET /api/camera/stream, server.js:201-214: the frame, or 404 for null
GetStreamStatus == IF GetCurrentFrame # NoFrame THEN "200" ELSE "404"

\* C22: while the module holds a running session, getCurrentFrame returns
\* null from the start of the session until the first chunk of its child,
\* and from then on the latest chunk of that child: a step that starts a
\* session leaves null, a chunk of the session's child becomes the frame,
\* and no other step of a continuing session changes the frame.
C22_FrameIsLatestOfActiveSession ==
    [][/\ (camLast'.op = "startStream" /\ camLast'.code = "started")
            => GetCurrentFrame' = NoFrame
       /\ (isStreaming /\ isStreaming' /\ cameraProcess # 0 /\ cameraProcess' = cameraProcess)
            => IF camLast'.op = "stdout" /\ camLast'.pid = cameraProcess
               THEN GetCurrentFrame'.from = cameraProcess
               ELSE GetCurrentFrame' = GetCurrentFrame]_vars

\* C23: from the return of stopStream until the next startStream call,
\* getCurrentFrame returns null and GET /api/camera/stream answers 404.
C23_NoFrameAfterStop ==
    camApi = "stop" => (GetCurrentFrame = NoFrame /\ GetStreamStatus = "404")

\* C29: isStreaming is true exactly when cameraProcess is non-null.
C29_StreamingIffProcess == isStreaming <=> (cameraProcess # 0)

\* the close event of a replaced child has just run while a newer child runs
C29_Witness ==
    /\ camLast.op = "close"
    /\ \E p \in CamPids : p # camLast.pid /\ cproc[p].status = "running" /\ ~cproc[p].signalled
    /\ ~isStreaming
    /\ cameraProcess = 0

-----------------------------------------------------------------------------
\* C28: a startStream call that raises on a malformed config leaves the
\* module as it was: no child is signalled, and rtlProcess and dataCallback
\* keep their values.
C28_MalformedConfigChangesNothing ==
    [][(lastOp'.op = "startStream" /\ ~lastIn'.cfgOk)
            => UNCHANGED <<rtlProcess, dataCallback, proc>>]_vars

\* C30: a chunk of n bytes gives min(floor(n / 2), maxSamples) samples, and
\* both bytes of every sample lie inside the chunk, so that neither i nor q
\* is NaN.
C30_WholePairsOnly ==
    \A k \in DOMAIN arrived :
        LET n == Len(arrived[k].data)
            m == sent[k].msg
        IN  /\ m.numSamples = Min(n \div 2, maxSamples)
            /\ \A j \in DOMAIN m.samples :
                  m.samples[j].i.kind = "num" /\ m.samples[j].q.kind = "num"

-----------------------------------------------------------------------------
\* C27: a stop-sdr event or a disconnect of a socket that did not start the
\* active session sends no signal to that session's child and leaves
\* rtlProcess and dataCallback as they are.
C27_OtherClientCannotStop ==
    [][\A s \in Sockets, p \in Pids :
          (ActiveSession(p) /\ owner[p] # s /\ (StopSdr(s) \/ Disconnect(s)))
            => /\ ~proc'[p].signalled
               /\ rtlProcess' = rtlProcess
               /\ dataCallback' = dataCallback]_vars

----------------------------------------------------------------------------
(* capturePhoto, src/modules/pi-camera.js:99-132 and src/unnamed/part_001:158-212 *)

\* `photo_${timestamp}.jpg` and `/photos/${filename}`
Filename(timestamp) == "photo_" \o Digits(timestamp) \o ".jpg"
PhotoUrl(filename) == "/photos/" \o filename

\* The value the promise is resolved with (its constant message left out).
PhotoResult(timestamp) ==
    [success |-> TRUE, filename |-> Filename(timestamp), url |-> PhotoUrl(Filename(timestamp))]

\* One event of a capture child, as its handler saw it: for 'close' the exit
\* code and what fs.existsSync(filepath) returned (FALSE when code === 0 failed
\* and && never called it), neither for 'error'.
CaptureEvent(ev, code, exists) == [ev |-> ev, code |-> code, exists |-> exists]

\* resolve(v) and reject(e) of a promise: only the first call settles it.
SettleCapture(c, how, value) ==
    IF c.settled = "pending" THEN [c EXCEPT !.settled = how, !.result = value] ELSE c

\* What the close event of a capture child can carry; nothing in the server
\* signals the child, an operator can.
CaptureCloseCodes(c) ==
    IF c.status = "errored" THEN {SpawnFailCode} ELSE SelfExitCodes \cup {SignalExitCode}

\* capturePhoto(): the executor runs at once. A spawn that throws makes the
\* executor throw, which rejects the promise; no listener is attached then.
CapturePhoto(k, outcome, now) ==
    /\ capture[k].status = "unborn"
    /\ \A j \in Captures : j < k => capture[j].status # "unborn"
    /\ capture' = [capture EXCEPT ![k] =
            [status |-> CASE outcome = "ok" -> "running"
                          [] outcome = "enoent" -> "failed"
                          [] OTHER -> "none",
             settled |-> IF outcome = "throw" THEN "rejected" ELSE "pending",
             result |-> NoResult,
             stamp |-> now,
             log |-> <<>>]]
    /\ UNCHANGED <<sdrVars, camVars, srvVars, probeVars, dataVars, httpVars>>

\* The close handler with the test of the output file left out.
CaptureOnCloseIgnoresFile(k, code, exists) ==
    /\ capture[k].status \in {"running", "errored"}
    /\ code \in CaptureCloseCodes(capture[k])
    /\ exists => code = "0"
    /\ capture' = [capture EXCEPT ![k] =
            [(IF code = "0"
                THEN SettleCapture(capture[k], "resolved", PhotoResult(capture[k].stamp))
                ELSE SettleCapture(capture[k], "rejected", NoResult))
             EXCEPT !.status = "closed",
                    !.log = Append(capture[k].log, CaptureEvent("close", code, exists))]]
    /\ UNCHANGED <<sdrVars, camVars, srvVars, probeVars, dataVars, httpVars>>

\* captureProcess.on('close', code => ...): exists is fs.existsSync(filepath)
CaptureOnClose(k, code, exists) ==
    /\ capture[k].status \in {"running", "errored"}
    /\ code \in CaptureCloseCodes(capture[k])
    /\ exists => code = "0"
    /\ capture' = [capture EXCEPT ![k] =
            [(IF code = "0" /\ exists
                THEN SettleCapture(capture[k], "resolved", PhotoResult(capture[k].stamp))
                ELSE SettleCapture(capture[k], "rejected", NoResult))
             EXCEPT !.status = "closed",
                    !.log = Append(capture[k].log, CaptureEvent("close", code, exists))]]
    /\ UNCHANGED <<sdrVars, camVars, srvVars, probeVars, dataVars, httpVars>>

\* captureProcess.on('error', error => reject(error))
CaptureOnError(k) ==
    /\ capture[k].status = "failed"
    /\ capture' = [capture EXCEPT ![k] =
            [SettleCapture(capture[k], "rejected", NoResult)
             EXCEPT !.status = "errored",
                    !.log = Append(capture[k].log, CaptureEvent("error", "", FALSE))]]
    /\ UNCHANGED <<sdrVars, camVars, srvVars, probeVars, dataVars, httpVars>>

\* The first startStream call of the camera module.
CamFirstStart == cnextId = 1 /\ \E outcome \in SpawnOutcomes : CamStartStream(outcome)

\* Photos being taken before, while and after the camera streams one session.
CaptureNext ==
    \/ CamFirstStart
    \/ CamStopStream
    \/ \E p \in CamPids, d \in Chunks : CamOnStdout(p, d)
    \/ \E p \in CamPids : CamOnStderr(p)
    \/ \E p \in CamPids : CamOnError(p)
    \/ \E p \in CamPids, c \in SelfExitCodes \cup {SignalExitCode, SpawnFailCode} : CamOnClose(p, c)
    \/ \E k \in Captures, outcome \in SpawnOutcomes, now \in Clocks : CapturePhoto(k, outcome, now)
    \/ \E k \in Captures : CaptureOnError(k)
    \/ \E k \in Captures, code \in SelfExitCodes \cup {SignalExitCode, SpawnFailCode},
          exists \in BOOLEAN : CaptureOnClose(k, code, exists)

CaptureSpec == Init /\ [][CaptureNext]_vars

\* The close event of call k found exit code 0 and the output file.
ClosedWithPhoto(k) ==
    \E i \in 1..Len(capture[k].log) :
        capture[k].log[i] = CaptureEvent("close", "0", TRUE)

\* Call k's child failed: an error event, a non-zero or null exit code, or no
\* output file at the close event.
CaptureFailed(k) ==
    \E i \in 1..Len(capture[k].log) :
        capture[k].log[i] # CaptureEvent("close", "0", TRUE)

\* C25: the promise of a capturePhoto call is resolved, with success, the
\* photo's filename and its URL, exactly when its child closed with exit code
\* 0 and the output file existed; it is rejected exactly when spawn threw or
\* the child emitted an error event, closed with another code or left no file;
\* it is pending only while the child has emitted nothing; once settled it
\* never changes; and no step of a capture changes cameraProcess, isStreaming
\* or currentFrame.
C25_CaptureSettlesOnce ==
    /\ [](\A k \in Captures :
            /\ (capture[k].settled = "resolved") <=> ClosedWithPhoto(k)
            /\ (capture[k].settled = "rejected")
                    <=> (capture[k].status = "none" \/ CaptureFailed(k))
            /\ (capture[k].settled = "pending")
                    <=> (capture[k].status \in {"running", "failed"} /\ capture[k].log = <<>>)
            /\ capture[k].result =
                    IF capture[k].settled = "resolved"
                    THEN PhotoResult(capture[k].stamp) ELSE NoResult)
    /\ [][/\ \A k \in Captures :
                capture[k].settled \in {"resolved", "rejected"}
                    => /\ capture'[k].settled = capture[k].settled
                       /\ capture'[k].result = capture[k].result
          /\ capture' # capture
                => UNCHANGED <<cameraProcess, isStreaming, currentFrame>>]_vars

\* One photo was taken and one capture failed at spawn (error, then close),
\* both while a stream with a frame is active.
C25_Witness ==
    /\ isStreaming /\ cameraProcess # 0 /\ currentFrame # NoFrame
    /\ capture[1].settled = "resolved"
    /\ capture[2].settled = "rejected" /\ Len(capture[2].log) = 2

----------------------------------------------------------------------------
(* Password protection, src/server.js:18-88 and the route table below it.
   Client s holds the cookie of session s and, on the socket side, socket s. *)

\* The routes of server.js with the middleware chain each one is registered
\* with: requireAuth before the handler, or the handler alone. Files under
\* public/ (the photos) are served by express.static, line 20, ahead of both.
Route(method, route, chain) == [method |-> method, route |-> route, chain |-> chain]
Routes ==
    { Route("GET", "/", "requireAuth"),                              \* line 77
      Route("GET", "/sdr", "requireAuth"),                           \* line 81
      Route("GET", "/camera", "requireAuth"),                        \* line 85
      Route("POST", "/api/reboot", "requireAuth"),                   \* line 90
      Route("POST", "/api/shutdown", "requireAuth"),                 \* line 106
      Route("GET", "/api/server-stats", "requireAuth"),              \* line 122
      Route("POST", "/api/camera/start", "requireAuth"),             \* line 191
      Route("POST", "/api/camera/stop", "requireAuth"),              \* line 196
      Route("GET", "/api/camera/stream", "requireAuth"),             \* line 201
      Route("GET", "/api/camera/placeholder", "open"),               \* line 216
      Route("POST", "/api/camera/capture", "requireAuth"),           \* line 227
      Route("GET", "/api/camera/photos", "requireAuth"),             \* line 236
      Route("DELETE", "/api/camera/photo/:filename", "requireAuth"), \* line 241
      Route("GET", "/photos/:filename", "open") }                    \* line 20

\* What a login request can carry as req.body.password: the password the
\* stored hash was made from, another one, or nothing.
NoPassword == "undefined"
Passwords == {"raspberry", "guess", NoPassword}

\* bcrypt.hash with the salt of the stored hash: equal passwords give equal
\* hashes, different ones different hashes.
BcryptHash(password) == "$2b$10$" \o password
\* process.env.PASSWORD_HASH, as the README has it generated
PASSWORD_HASH == BcryptHash("raspberry")

\* bcrypt.compare(data, hash): rejects when an argument is missing, otherwise
\* hashes data with the salt of hash and compares.
BcryptCompare(password, hash) ==
    IF password = NoPassword THEN "throw"
    ELSE IF BcryptHash(password) = hash THEN "true" ELSE "false"

Request(c, method, route, password, answer) ==
    [client |-> c, method |-> method, route |-> route, password |-> password, answer |-> answer]

\* A requireAuth that lets every request through.
RequireAuthOpen(c) == "handler"

\* requireAuth(req, res, next), lines 34-40: next() or res.redirect('/login')
RequireAuth(c) == IF authenticated[c] THEN "handler" ELSE "redirect /login"

\* app.get('/login'), lines 43-48
GetLogin(c) ==
    /\ httpLast' = Request(c, "GET", "/login", "",
                           IF authenticated[c] THEN "redirect /" ELSE "login page")
    /\ UNCHANGED <<authenticated, sdrVars, camVars, srvVars, probeVars, dataVars, capVars>>

\* app.post('/login'), lines 51-69
PostLogin(c, password) ==
    LET isValid == BcryptCompare(password, PASSWORD_HASH)
    IN  /\ authenticated' =
                IF isValid = "true" THEN [authenticated EXCEPT ![c] = TRUE] ELSE authenticated
        /\ httpLast' = Request(c, "POST", "/login", password,
                               CASE isValid = "true" -> "200"
                                 [] isValid = "false" -> "401"
                                 [] OTHER -> "500")
        /\ UNCHANGED <<sdrVars, camVars, srvVars, probeVars, dataVars, capVars>>

\* app.get('/logout'), lines 71-74: req.session.destroy() drops the session,
\* the client's next request starts a new one without the flag.
GetLogout(c) ==
    /\ authenticated' = [authenticated EXCEPT ![c] = FALSE]
    /\ httpLast' = Request(c, "GET", "/logout", "", "redirect /login")
    /\ UNCHANGED <<sdrVars, camVars, srvVars, probeVars, dataVars, capVars>>

\* A request to one of the routes of the table; "handler" stands for the
\* route's handler having run, whatever it answers.
Serve(c, r) ==
    /\ httpLast' = Request(c, r.method, r.route, "",
                           IF r.chain = "requireAuth" THEN RequireAuth(c) ELSE "handler")
    /\ UNCHANGED <<authenticated, sdrVars, camVars, srvVars, probeVars, dataVars, capVars>>

\* cookie.maxAge, line 29: the session of a client lapses after 24 hours.
SessionExpires(c) ==
    /\ authenticated[c]
    /\ authenticated' = [authenticated EXCEPT ![c] = FALSE]
    /\ UNCHANGED <<httpLast, sdrVars, camVars, srvVars, probeVars, dataVars, capVars>>

AuthNext ==
    \/ \E c \in Sockets : GetLogin(c)
    \/ \E c \in Sockets, password \in Passwords : PostLogin(c, password)
    \/ \E c \in Sockets : GetLogout(c)
    \/ \E c \in Sockets, r \in Routes : Serve(c, r)
    \/ \E c \in Sockets : SessionExpires(c)

AuthSpec == Init /\ [][AuthNext]_vars

\* The paths of the routes under the "Protected routes" heading of server.js
\* and of its camera section that take a session.
ProtectedRoutes ==
    {"/", "/sdr", "/camera", "/api/reboot", "/api/shutdown", "/api/server-stats",
     "/api/camera/start", "/api/camera/stop", "/api/camera/stream", "/api/camera/capture",
     "/api/camera/photos", "/api/camera/photo/:filename"}

\* C24: a request to a protected route runs the route's handler if the
\* client's session carries the authenticated flag and is redirected to /login
\* if it does not; the flag of a session becomes set only in a POST /login of
\* that client whose password hashes to the stored hash; and a GET /logout
\* leaves the client's flag cleared.
C24_ProtectedRoutesNeedLogin ==
    [][/\ (httpLast' # httpLast /\ httpLast'.route \in ProtectedRoutes)
            => httpLast'.answer =
                    IF authenticated[httpLast'.client] THEN "handler" ELSE "redirect /login"
       /\ \A c \in Sockets :
            (~authenticated[c] /\ authenticated'[c])
                => /\ httpLast' = Request(c, "POST", "/login", httpLast'.password, "200")
                   /\ BcryptHash(httpLast'.password) = PASSWORD_HASH
       /\ (httpLast' # httpLast /\ httpLast'.route = "/logout")
            => ~authenticated'[httpLast'.client]]_vars

\* One client is logged in and has just had the shutdown handler run, the
\* other one is not logged in.
C24_Witness ==
    \E c, d \in Sockets :
        /\ authenticated[c] /\ ~authenticated[d]
        /\ httpLast = Request(c, "POST", "/api/shutdown", "", "handler")

----------------------------------------------------------------------------
(* The socket side of the server next to the login, server.js:246-276: io.use
   runs a session middleware on the handshake and calls next() whatever the
   session holds; no listener reads socket.request.session. *)

SocketAuthNext ==
    \/ \E c \in Sockets, password \in Passwords : PostLogin(c, password)
    \/ \E c \in Sockets : GetLogout(c)
    \/ \E s \in Sockets : Connection(s)
    \/ \E s \in Sockets, outcome \in SpawnOutcomes : StartSdr(s, outcome)

SocketAuthSpec == Init /\ [][SocketAuthNext]_vars

\* C26: a start-sdr event of a socket spawns rtl_sdr only if the session of
\* the socket's client carries the authenticated flag.
C26_SdrOnlyForAuthenticated ==
    [][\A s \in Sockets, outcome \in SpawnOutcomes :
          (StartSdr(s, outcome) /\ lastOp'.code = "spawned") => authenticated[s]]_vars
====
